---- MODULE Spec2Model ----
(***************************************************************************)
(* BLE credential provisioning (src/src/provisioning.cpp).                 *)
(*                                                                         *)
(* The module runs in two tasks that share its globals without a lock: the *)
(* main task makes the application calls (begin, startBle, stopBle,        *)
(* notifyStatus, loop), the BLE task runs the event handlers (onConnect,   *)
(* onDisconnect, onWrite).  Spec interleaves the two tasks statement by    *)
(* statement: mpc and hpc are the positions of the two tasks (the number   *)
(* in a position is the source line that runs next), mloc and hloc the     *)
(* arguments and locals of the call and of the handler in progress,        *)
(* together with a record of what it has done so far.  The BLE stack runs  *)
(* one handler at a time.                                                  *)
(*                                                                         *)
(* The program state is the record st: the module's globals g_..., and the *)
(* part of the BLE stack the module drives (characteristic value,          *)
(* advertising, links).  Every statement of the source is an operator on   *)
(* st; a step of Spec applies the statements from one access of a shared   *)
(* variable up to the next.  A text is the sequence of its bytes, so that  *)
(* the characteristic holds a status text or a written payload alike.      *)
(*                                                                         *)
(* The BLE stack is outside the repository.  What is assumed of it:        *)
(* advertising stops when a central connects and does not resume by        *)
(* itself; a central can connect only while advertising runs; a            *)
(* disconnect requested with disconnect(connId) is delivered later as a    *)
(* disconnect event; the stack never reports the handle 0xFFFF;            *)
(* getAdvertising() may fail and return null; the stack does its side of   *)
(* an event (link up and advertising stopped, link down, payload stored in *)
(* the characteristic) in a step of its own and then calls the handler;    *)
(* notify() sends the value the characteristic holds.  A call of the empty *)
(* callback aborts the program: no task takes a step after it.             *)
(*                                                                         *)
(* Two accesses are not atomic.  The assignment of g_callback at line 183  *)
(* is several stores: while it is under way the handler may read the old   *)
(* callback, the new one or a half-written one, which may test empty or    *)
(* not and aborts the program when called.  g_sessionActive is not         *)
(* volatile: the disconnect handler may read it (line 123) ahead of its    *)
(* stores of lines 121 and 122.                                            *)
(*                                                                         *)
(* SpecSession runs the calls and events that open and close a session,    *)
(* begin() being given either of two device ids.                           *)
(* SpecParse applies the credential parser to every payload up to a        *)
(* length: written is the payload, parsed what the parser returned.        *)
(***************************************************************************)
EXTENDS Integers, Sequences, FiniteSets, TLC

VARIABLES st, hist, mpc, hpc, mloc, hloc, written, parsed

vars == <<st, hist, mpc, hpc, mloc, hloc, written, parsed>>

(***************************************************************************)
(* Bounds of the model.                                                    *)
(***************************************************************************)
\* simultaneous links the stack accepts
MaxLinks == 2
\* length of the payloads the parser is applied to
MaxLen == 4

(***************************************************************************)
(* Program constants.                                                      *)
(***************************************************************************)
kInvalidConnId == 65535
kMinPreferred == 6
kMaxPreferred == 18
kServiceUuid == "12345678-1234-1234-1234-1234567890ab"
kCharacteristicUuid == "87654321-4321-4321-4321-0987654321ba"

\* bytes: NUL, TAB, LF, CR, space, '|'
NUL == 0
TAB == 9
LF == 10
CR == 13
SP == 32
PIPE == 124

\* the payloads a central writes (97 is 'a'): one that fails to parse and
\* one that parses
WritePayloads == {<<>>, <<97, PIPE, 97>>}

\* the bytes of the payloads the parser is applied to: the zero byte, the
\* four whitespace bytes, the pipe and a letter
Bytes == {NUL, TAB, LF, CR, SP, PIPE, 97}
Payloads == UNION {[1..n -> Bytes] : n \in 0..MaxLen}

\* the device ids begin() is given: one in Spec, where the two tasks
\* interleave, two in SpecSession
DeviceIds == {"dev-A"}
SessionDeviceIds == {"dev-A", "dev-B"}
NoCallback == "null"
\* a half-written callback, and the mark of no assignment under way
Torn == "torn"
NoStore == "none"
Callbacks == {"cb1"}
StatusMessages == {"wifi-connecting"}

\* message.c_str(): the bytes of the status texts of the model
Ascii(text) ==
  CASE text = "inactivo" -> <<105, 110, 97, 99, 116, 105, 118, 111>>
    [] text = "activo" -> <<97, 99, 116, 105, 118, 111>>
    [] text = "credenciales" ->
         <<99, 114, 101, 100, 101, 110, 99, 105, 97, 108, 101, 115>>
    [] text = "error:vacio" ->
         <<101, 114, 114, 111, 114, 58, 118, 97, 99, 105, 111>>
    [] text = "error:formato" ->
         <<101, 114, 114, 111, 114, 58, 102, 111, 114, 109, 97, 116, 111>>
    [] text = "error:ssid" ->
         <<101, 114, 114, 111, 114, 58, 115, 115, 105, 100>>
    [] text = "wifi-connecting" ->
         <<119, 105, 102, 105, 45, 99, 111, 110, 110, 101, 99, 116, 105,
           110, 103>>
ConnIds == 0..(MaxLinks - 1)

(***************************************************************************)
(* Credential parser.                                                      *)
(***************************************************************************)
\* std::string::npos
npos == -1

isWhitespace(c) == c = CR \/ c = LF \/ c = TAB \/ c = SP

RECURSIVE trimFront(_)
trimFront(text) ==
  IF text # <<>> /\ isWhitespace(Head(text)) THEN trimFront(Tail(text)) ELSE text

RECURSIVE trimBack(_)
trimBack(text) ==
  IF text # <<>> /\ isWhitespace(text[Len(text)])
  THEN trimBack(SubSeq(text, 1, Len(text) - 1))
  ELSE text

\* a trim() that leaves the end of the text as it is
trim_frontOnly(text) == trimFront(text)

trim(text) == trimBack(trimFront(text))

\* std::remove + erase
remove(text, c) == SelectSeq(text, LAMBDA x : x # c)

\* std::string::find: 0-based position of the first c, or npos
find(text, c) ==
  IF \E i \in 1..Len(text) : text[i] = c
  THEN (CHOOSE i \in 1..Len(text) :
          text[i] = c /\ \A j \in 1..(i - 1) : text[j] # c) - 1
  ELSE npos

\* String(text.c_str()): the bytes before the first NUL
cstr(text) ==
  LET z == find(text, NUL) IN IF z = npos THEN text ELSE SubSeq(text, 1, z)

ParsedCredentials(valid, ssid, password, error) ==
  [valid |-> valid, ssid |-> ssid, password |-> password, error |-> error]

\* no payload has been parsed
NotParsed == ParsedCredentials(FALSE, <<>>, <<>>, "none")

\* a parser that tests the SSID before trimming it
parseCredentials_untrimmedTest(raw) ==
  IF raw = <<>> THEN ParsedCredentials(FALSE, <<>>, <<>>, "vacio")
  ELSE
    LET payload == remove(raw, CR)
        nl == find(payload, LF)
        separator == IF nl = npos THEN find(payload, PIPE) ELSE nl
    IN
    IF separator = npos THEN ParsedCredentials(FALSE, <<>>, <<>>, "formato")
    ELSE
      LET ssid == SubSeq(payload, 1, separator)
          password == trim(SubSeq(payload, separator + 2, Len(payload)))
      IN
      IF ssid = <<>> THEN ParsedCredentials(FALSE, <<>>, <<>>, "ssid")
      ELSE ParsedCredentials(TRUE, cstr(trim(ssid)), cstr(password), "")

\* a parser that splits at the first separator byte, newline or pipe
parseCredentials_firstOfBoth(raw) ==
  IF raw = <<>> THEN ParsedCredentials(FALSE, <<>>, <<>>, "vacio")
  ELSE
    LET payload == remove(raw, CR)
        nl == find(payload, LF)
        bar == find(payload, PIPE)
        separator == IF nl = npos THEN bar
                     ELSE IF bar = npos \/ nl < bar THEN nl ELSE bar
    IN
    IF separator = npos THEN ParsedCredentials(FALSE, <<>>, <<>>, "formato")
    ELSE
      LET ssid == trim(SubSeq(payload, 1, separator))
          password == trim(SubSeq(payload, separator + 2, Len(payload)))
      IN
      IF ssid = <<>> THEN ParsedCredentials(FALSE, <<>>, <<>>, "ssid")
      ELSE ParsedCredentials(TRUE, cstr(ssid), cstr(password), "")

parseCredentials(raw) ==
  IF raw = <<>> THEN ParsedCredentials(FALSE, <<>>, <<>>, "vacio")
  ELSE
    LET payload == remove(raw, CR)
        nl == find(payload, LF)
        separator == IF nl = npos THEN find(payload, PIPE) ELSE nl
    IN
    IF separator = npos THEN ParsedCredentials(FALSE, <<>>, <<>>, "formato")
    ELSE
      LET ssid == trim(SubSeq(payload, 1, separator))
          password == trim(SubSeq(payload, separator + 2, Len(payload)))
      IN
      IF ssid = <<>> THEN ParsedCredentials(FALSE, <<>>, <<>>, "ssid")
      ELSE ParsedCredentials(TRUE, cstr(ssid), cstr(password), "")


(***************************************************************************)
(* State.                                                                  *)
(***************************************************************************)
NoAdvData ==
  [name |-> "", services |-> {}, scanResponse |-> TRUE,
   minPreferred |-> 0, maxPreferred |-> 0]

InitState ==
  [g_server |-> FALSE, g_characteristic |-> FALSE, g_advertising |-> FALSE,
   g_callback |-> NoCallback, g_deviceId |-> "", g_initialized |-> FALSE,
   \* the callback that the assignment of line 183 is storing in g_callback,
   \* while it is under way
   g_callbackStore |-> NoStore,
   g_sessionActive |-> FALSE, g_centralConnected |-> FALSE,
   g_connId |-> kInvalidConnId, g_restartAdvertising |-> FALSE,
   \* BLE stack
   services |-> 0, characteristics |-> 0,
   serverCallbacks |-> 0, characteristicCallbacks |-> 0,
   advServiceUuids |-> 0, value |-> <<>>, advData |-> NoAdvData,
   advRunning |-> FALSE, links |-> {}]

(***************************************************************************)
(* BLE stack operations the module calls, and the stack's side of events.  *)
(***************************************************************************)
\* g_advertising->start()
advStart(s) == [s EXCEPT !.advRunning = TRUE]

\* g_advertising->stop()
advStop(s) == [s EXCEPT !.advRunning = FALSE]

\* g_server->disconnect(connId): the stack closes the link later and delivers
\* a disconnect event then; until then nothing changes
disconnect(s, connId) == s

\* g_characteristic->setValue(text)
setValue(s, text) == [s EXCEPT !.value = text]

\* characteristic->getValue()
getValue(s) == s.value

\* the stack's side of a connect event
linkUp(s, connId) ==
  [s EXCEPT !.links = @ \cup {connId}, !.advRunning = FALSE]

\* the stack's side of a disconnect event
linkDown(s, connId) ==
  [s EXCEPT !.links = @ \ {connId}]

\* the stack's side of a write event: the payload is stored in the
\* characteristic, then the handler is called
linkWrite(s, raw) == setValue(s, raw)

(***************************************************************************)
(* Notification channel.                                                   *)
(***************************************************************************)
notify_87(s) == ~s.g_characteristic

notify_90(s, message) == setValue(s, Ascii(message))

notify_91(s) == s.g_centralConnected

\* what g_characteristic->notify() sends: the value held when it runs
notify_92(s) == getValue(s)

\* the state a notify() call run on its own leaves
notify(s, message) == IF notify_87(s) THEN s ELSE notify_90(s, message)

(***************************************************************************)
(* Event handlers.                                                         *)
(***************************************************************************)
onWrite_98(s) == getValue(s)

onWrite_99(value) == parseCredentials(value)

onWrite_101(credentials) == ~credentials.valid

onWrite_102(credentials) == "error:" \o credentials.error

\* what a read of g_callback can find: the callback stored, or, while the
\* assignment of line 183 is under way (a std::function is not stored in one
\* piece), the old one, the new one or a half-written one
g_callback_read(s) ==
  IF s.g_callbackStore = NoStore THEN {s.g_callback}
  ELSE {s.g_callback, s.g_callbackStore, Torn}

\* line 108: the outcomes of the test of the callback read; a half-written
\* callback may test either way
onWrite_108(callback) ==
  IF callback = Torn THEN BOOLEAN ELSE {callback # NoCallback}

\* line 109: the call goes through if the callback called is neither empty
\* nor half-written
onWrite_109(callback) == callback \notin {NoCallback, Torn}

onConnect_116(s) == [s EXCEPT !.g_centralConnected = TRUE]

\* connId is what server->getConnId() returns: the handle of the new link
onConnect_117(s, connId) == [s EXCEPT !.g_connId = connId]

onDisconnect_121(s) == [s EXCEPT !.g_centralConnected = FALSE]

onDisconnect_122(s) == [s EXCEPT !.g_connId = kInvalidConnId]

onDisconnect_123(s) == s.g_sessionActive

onDisconnect_124(s) == [s EXCEPT !.g_restartAdvertising = TRUE]

(***************************************************************************)
(* Initialization.                                                         *)
(***************************************************************************)
\* got: what BLEDevice::getAdvertising() returns (TRUE: a handle) if it is asked
configureAdvertising(s, got) ==
  LET s1 == IF ~s.g_advertising THEN [s EXCEPT !.g_advertising = got] ELSE s IN
  IF ~s1.g_advertising THEN s1
  ELSE [s1 EXCEPT !.advData =
          [name |-> s1.g_deviceId, services |-> {kServiceUuid},
           scanResponse |-> FALSE, minPreferred |-> kMinPreferred,
           maxPreferred |-> kMaxPreferred]]

ensureInitialized(s, deviceId, got1, got2) ==
  IF s.g_initialized
  THEN configureAdvertising([s EXCEPT !.g_deviceId = deviceId], got2)
  ELSE
    LET s1 == [s EXCEPT !.g_deviceId = deviceId,
                        !.g_server = TRUE, !.serverCallbacks = @ + 1,
                        !.services = @ + 1, !.characteristics = @ + 1,
                        !.g_characteristic = TRUE,
                        !.characteristicCallbacks = @ + 1,
                        !.value = Ascii("inactivo"),
                        !.g_advertising = got1,
                        !.advServiceUuids = IF got1 THEN @ + 1 ELSE @]
        s2 == configureAdvertising(s1, got2)
    IN [s2 EXCEPT !.g_initialized = TRUE]

(***************************************************************************)
(* Application calls, statement by statement.                              *)
(***************************************************************************)
\* line 183: the assignment begins, and is completed
begin_183a(s, callback) == [s EXCEPT !.g_callbackStore = callback]

begin_183b(s) ==
  [s EXCEPT !.g_callback = s.g_callbackStore, !.g_callbackStore = NoStore]

begin_184(s, deviceId, got1, got2) == ensureInitialized(s, deviceId, got1, got2)

\* a startBle() that does not test the advertising handle
startBle_189_noHandleTest(s) == ~s.g_initialized

startBle_189(s) == ~s.g_initialized \/ ~s.g_advertising

startBle_193(s) == configureAdvertising(s, FALSE)

startBle_194(s) == advStart(s)

startBle_196(s) == [s EXCEPT !.g_sessionActive = TRUE]

startBle_197(s) == [s EXCEPT !.g_restartAdvertising = FALSE]

stopBle_202(s) == ~s.g_initialized

stopBle_206(s) == s.g_advertising

\* a stopBle() that leaves advertising running
stopBle_207_noStop(s) == s

stopBle_207(s) == advStop(s)

stopBle_210a(s) == s.g_centralConnected /\ s.g_server

stopBle_210b(s) == s.g_connId # kInvalidConnId

stopBle_211(s, connId) == disconnect(s, connId)

\* a stopBle() that leaves the session flag set
stopBle_214_keepsSession(s) == s

stopBle_214(s) == [s EXCEPT !.g_sessionActive = FALSE]

stopBle_215(s) == [s EXCEPT !.g_restartAdvertising = FALSE]

isActive(s) == s.g_sessionActive

loop_224a(s) == s.g_restartAdvertising

loop_224b(s) == s.g_sessionActive /\ s.g_advertising

loop_224(s) == loop_224a(s) /\ loop_224b(s)

\* a loop() that restarts without clearing the flag
loop_225_keepsFlag(s) == s

loop_225(s) == [s EXCEPT !.g_restartAdvertising = FALSE]

loop_226(s) == advStart(s)

(***************************************************************************)
(* The call or handler a task is running: arguments, locals, and what it   *)
(* has done so far.                                                        *)
(***************************************************************************)
NoLocals ==
  [op |-> "none",
   \* arguments
   deviceId |-> "", callback |-> NoCallback, message |-> "",
   \* where the task goes on after notify()
   after |-> "idle",
   \* locals: the handle tested at line 210, the payload the central wrote,
   \* the value read at line 98 and what the parser made of it
   connId |-> kInvalidConnId, raw |-> <<>>, value |-> <<>>,
   credentials |-> NotParsed,
   \* what the disconnect handler read in g_sessionActive, if it has read it
   \* ahead of lines 121 and 122
   active |-> <<>>,
   \* the result, for startBle()
   ret |-> FALSE,
   \* advertising ran when stopBle() was called
   advBefore |-> FALSE,
   \* the write event arrived while the session was stopped
   stopped |-> FALSE,
   \* the calls made to the BLE stack and to the application
   starts |-> 0, stops |-> 0, pushes |-> <<>>, discReqs |-> <<>>,
   cbCalls |-> <<>>]

Call(op) == [NoLocals EXCEPT !.op = op]

(***************************************************************************)
(* History: facts about the past that the claims speak of.                 *)
(***************************************************************************)
InitHist ==
  [begun |-> FALSE,         \* begin() has been called
   started |-> FALSE,       \* startBle() returned true, no stopBle() since
   overlap |-> FALSE,       \* a startBle() or stopBle() call was in progress
                            \* while the disconnect handler now running, or
                            \* the last one run, was
   disc |-> "no"            \* "yes": a disconnect handler has set the
                            \* pending-restart flag, no startBle() or
                            \* stopBle() was in progress while it ran, and
                            \* none has cleared the flag since, nor has
                            \* loop(); "any": the same for a handler that
                            \* ran while one was in progress; "no": no
                            \* handler has set the flag since it was cleared
  ]

\* the main task is inside a startBle() or stopBle() call
InStartStop == mpc \notin {"idle", "ret"} /\ mloc.op \in {"startBle", "stopBle"}

\* stopBle() has returned and no startBle() has been called since
Stopped == hist.begun /\ ~hist.started /\ ~InStartStop

\* the BLE task is inside the disconnect handler
InDisconnect == hpc \in {"onDisconnect_121", "onDisconnect_122",
                         "onDisconnect_123", "onDisconnect_124"}

(***************************************************************************)
(* Spec: the two tasks, interleaved statement by statement.                *)
(***************************************************************************)
Init ==
  /\ st = InitState
  /\ hist = InitHist
  /\ mpc = "idle"
  /\ hpc = "idle"
  /\ mloc = NoLocals
  /\ hloc = NoLocals
  /\ written = <<>>
  /\ parsed = NotParsed

\* the program has been aborted: a call of the empty callback at line 109
\* throws std::bad_function_call, which nothing catches
Aborted == hpc = "abort"

\* a step of the main task
MainAt(pc) == mpc = pc /\ ~Aborted /\ UNCHANGED <<hpc, hloc, written, parsed>>

\* a step of the BLE task
BleAt(pc) == hpc = pc /\ UNCHANGED <<mpc, mloc, written, parsed>>

\* ---- main task ----

\* begin(deviceId, callback): the assignment of line 183 begins
BeginWith(deviceIds) ==
  /\ MainAt("idle")
  /\ \E deviceId \in deviceIds, callback \in Callbacks \cup {NoCallback} :
       /\ st' = begin_183a(st, callback)
       /\ mloc' = [Call("begin") EXCEPT !.deviceId = deviceId,
                                        !.callback = callback]
  /\ mpc' = "begin_183b"
  /\ UNCHANGED hist

Begin == BeginWith(DeviceIds)

BeginSession == BeginWith(SessionDeviceIds)

\* line 183: the assignment is completed
Begin183 ==
  /\ MainAt("begin_183b")
  /\ st' = begin_183b(st)
  /\ mpc' = "begin_184"
  /\ UNCHANGED <<mloc, hist>>

\* line 184, and the call of notify() at line 185
Begin184 ==
  /\ MainAt("begin_184")
  /\ \E got1 \in BOOLEAN, got2 \in BOOLEAN :
       st' = begin_184(st, mloc.deviceId, got1, got2)
  /\ mloc' = [mloc EXCEPT !.message = "inactivo", !.after = "ret"]
  /\ hist' = [hist EXCEPT !.begun = TRUE]
  /\ mpc' = "notify_90"

\* notify(), lines 87-90
MNotify90 ==
  /\ MainAt("notify_90")
  /\ IF notify_87(st)
     THEN /\ mpc' = mloc.after
          /\ UNCHANGED <<st, mloc>>
     ELSE /\ st' = notify_90(st, mloc.message)
          /\ UNCHANGED mloc
          /\ mpc' = "notify_91"
  /\ UNCHANGED hist

\* notify(), line 91
MNotify91 ==
  /\ MainAt("notify_91")
  /\ mpc' = IF notify_91(st) THEN "notify_92" ELSE mloc.after
  /\ UNCHANGED <<st, mloc, hist>>

\* notify(), line 92: the stack sends the value the characteristic holds
MNotify92 ==
  /\ MainAt("notify_92")
  /\ mloc' = [mloc EXCEPT !.pushes = Append(@, notify_92(st))]
  /\ mpc' = mloc.after
  /\ UNCHANGED <<st, hist>>

\* startBle(), lines 189-194, and the call of notify() at line 195
StartBle ==
  /\ MainAt("idle")
  /\ IF startBle_189(st)
     THEN /\ mloc' = [Call("startBle") EXCEPT !.ret = FALSE]
          /\ mpc' = "ret"
          /\ UNCHANGED <<st, hist>>
     ELSE /\ st' = startBle_194(startBle_193(st))
          /\ mloc' = [Call("startBle") EXCEPT !.starts = 1,
                                              !.message = "activo",
                                              !.after = "startBle_196"]
          /\ mpc' = "notify_90"
          /\ hist' = [hist EXCEPT !.overlap = InDisconnect]

\* line 196
StartBle196 ==
  /\ MainAt("startBle_196")
  /\ st' = startBle_196(st)
  /\ mpc' = "startBle_197"
  /\ UNCHANGED <<mloc, hist>>

\* lines 197-198
StartBle197 ==
  /\ MainAt("startBle_197")
  /\ st' = startBle_197(st)
  /\ mloc' = [mloc EXCEPT !.ret = TRUE]
  /\ mpc' = "ret"
  /\ hist' = [hist EXCEPT !.started = TRUE, !.disc = "no"]

\* stopBle(), lines 202-208
StopBle ==
  /\ MainAt("idle")
  /\ IF stopBle_202(st)
     THEN /\ mloc' = Call("stopBle")
          /\ mpc' = "ret"
          /\ UNCHANGED <<st, hist>>
     ELSE /\ st' = IF stopBle_206(st) THEN stopBle_207(st) ELSE st
          /\ mloc' = [Call("stopBle") EXCEPT
                        !.advBefore = st.advRunning,
                        !.stops = IF stopBle_206(st) THEN 1 ELSE 0]
          /\ mpc' = "stopBle_210a"
          /\ hist' = [hist EXCEPT !.started = FALSE,
                                  !.overlap = InDisconnect]

\* line 210: g_centralConnected && g_server
StopBle210a ==
  /\ MainAt("stopBle_210a")
  /\ mpc' = IF stopBle_210a(st) THEN "stopBle_210b" ELSE "stopBle_214"
  /\ UNCHANGED <<st, mloc, hist>>

\* line 210: g_connId != kInvalidConnId
StopBle210b ==
  /\ MainAt("stopBle_210b")
  /\ mloc' = [mloc EXCEPT !.connId = st.g_connId]
  /\ mpc' = IF stopBle_210b(st) THEN "stopBle_211" ELSE "stopBle_214"
  /\ UNCHANGED <<st, hist>>

\* line 211: g_connId is not volatile, the call is given the handle tested
\* at line 210 or the one g_connId holds now
StopBle211 ==
  /\ MainAt("stopBle_211")
  /\ \E connId \in {mloc.connId, st.g_connId} :
       /\ st' = stopBle_211(st, connId)
       /\ mloc' = [mloc EXCEPT !.discReqs = Append(@, connId)]
  /\ mpc' = "stopBle_214"
  /\ UNCHANGED hist

\* line 214
StopBle214 ==
  /\ MainAt("stopBle_214")
  /\ st' = stopBle_214(st)
  /\ mpc' = "stopBle_215"
  /\ UNCHANGED <<mloc, hist>>

\* line 215, and the call of notify() at line 216
StopBle215 ==
  /\ MainAt("stopBle_215")
  /\ st' = stopBle_215(st)
  /\ mloc' = [mloc EXCEPT !.message = "inactivo", !.after = "ret"]
  /\ mpc' = "notify_90"
  /\ hist' = [hist EXCEPT !.disc = "no"]

\* notifyStatus(message), line 221: the call of notify()
NotifyStatus ==
  /\ MainAt("idle")
  /\ \E message \in StatusMessages :
       mloc' = [Call("notifyStatus") EXCEPT !.message = message,
                                            !.after = "ret"]
  /\ mpc' = "notify_90"
  /\ UNCHANGED <<st, hist>>

\* loop(), line 224
Loop224 ==
  /\ MainAt("idle")
  /\ mloc' = Call("loop")
  /\ mpc' = IF loop_224(st) THEN "loop_225" ELSE "ret"
  /\ UNCHANGED <<st, hist>>

\* line 225
Loop225 ==
  /\ MainAt("loop_225")
  /\ st' = loop_225(st)
  /\ mpc' = "loop_226"
  /\ hist' = [hist EXCEPT !.disc = "no"]
  /\ UNCHANGED mloc

\* line 226
Loop226 ==
  /\ MainAt("loop_226")
  /\ st' = loop_226(st)
  /\ mloc' = [mloc EXCEPT !.starts = @ + 1]
  /\ mpc' = "ret"
  /\ UNCHANGED hist

\* the call returns to the application
MReturn ==
  /\ MainAt("ret")
  /\ mpc' = "idle"
  /\ mloc' = NoLocals
  /\ UNCHANGED <<st, hist>>

\* ---- BLE task ----

\* a connect event, the stack's side: the link is up and advertising has
\* stopped; the stack goes on to call onConnect()
Connect ==
  /\ BleAt("idle")
  /\ st.serverCallbacks > 0
  /\ st.advRunning
  /\ \E connId \in ConnIds \ st.links :
       /\ st' = linkUp(st, connId)
       /\ hloc' = [Call("connect") EXCEPT !.connId = connId]
  /\ hpc' = "onConnect_116"
  /\ UNCHANGED hist

\* line 116
Connect116 ==
  /\ BleAt("onConnect_116")
  /\ st' = onConnect_116(st)
  /\ hpc' = "onConnect_117"
  /\ UNCHANGED <<hloc, hist>>

\* line 117
Connect117 ==
  /\ BleAt("onConnect_117")
  /\ st' = onConnect_117(st, hloc.connId)
  /\ hloc' = NoLocals
  /\ hpc' = "idle"
  /\ UNCHANGED hist

\* a disconnect event, the stack's side: the link is down; the stack goes
\* on to call onDisconnect()
Disconnect ==
  /\ BleAt("idle")
  /\ \E connId \in st.links : st' = linkDown(st, connId)
  /\ hloc' = Call("disconnect")
  /\ hpc' = "onDisconnect_121"
  /\ hist' = [hist EXCEPT !.overlap = InStartStop]

\* line 121
Disconnect121 ==
  /\ BleAt("onDisconnect_121")
  /\ st' = onDisconnect_121(st)
  /\ hpc' = "onDisconnect_122"
  /\ UNCHANGED <<hloc, hist>>

\* line 122; where g_sessionActive has been read ahead, the test of line 123
\* follows at once, on the value read
Disconnect122 ==
  /\ BleAt("onDisconnect_122")
  /\ st' = onDisconnect_122(st)
  /\ IF hloc.active = <<>>
     THEN /\ hpc' = "onDisconnect_123"
          /\ UNCHANGED <<hloc, hist>>
     ELSE IF hloc.active[1]
     THEN /\ hpc' = "onDisconnect_124"
          /\ hloc' = [hloc EXCEPT !.active = <<>>]
          /\ UNCHANGED hist
     ELSE /\ hpc' = "idle"
          /\ hloc' = NoLocals
          /\ hist' = [hist EXCEPT !.overlap = FALSE]

\* the read of line 123, made ahead of the stores of lines 121 and 122:
\* g_sessionActive is not volatile, so that the build may read it first
Disconnect123Early ==
  /\ hpc \in {"onDisconnect_121", "onDisconnect_122"}
  /\ ~Aborted
  /\ hloc.active = <<>>
  /\ hloc' = [hloc EXCEPT !.active = <<onDisconnect_123(st)>>]
  /\ UNCHANGED <<st, hist, hpc, mpc, mloc, written, parsed>>

\* line 123, g_sessionActive being read now
Disconnect123 ==
  /\ BleAt("onDisconnect_123")
  /\ IF onDisconnect_123(st)
     THEN /\ hpc' = "onDisconnect_124"
          /\ UNCHANGED hloc
          /\ UNCHANGED hist
     ELSE /\ hpc' = "idle"
          /\ hloc' = NoLocals
          /\ hist' = [hist EXCEPT !.overlap = FALSE]
  /\ UNCHANGED st

\* line 124
Disconnect124 ==
  /\ BleAt("onDisconnect_124")
  /\ st' = onDisconnect_124(st)
  /\ hloc' = NoLocals
  /\ hpc' = "idle"
  /\ hist' = [hist EXCEPT !.disc = IF hist.overlap THEN "any" ELSE "yes",
                          !.overlap = FALSE]

\* a write event: the stack stores the payload and calls onWrite()
Write ==
  /\ BleAt("idle")
  /\ st.characteristicCallbacks > 0
  /\ st.links # {}
  /\ \E raw \in WritePayloads :
       /\ st' = linkWrite(st, raw)
       /\ hloc' = [Call("write") EXCEPT !.raw = raw, !.stopped = Stopped]
  /\ hpc' = "onWrite_98"
  /\ UNCHANGED hist

\* lines 98-106: the value is read and parsed, and notify() called
OnWrite98 ==
  /\ BleAt("onWrite_98")
  /\ LET value == onWrite_98(st)
         credentials == onWrite_99(value)
     IN hloc' = [hloc EXCEPT
                   !.value = value,
                   !.credentials = credentials,
                   !.message = IF onWrite_101(credentials)
                               THEN onWrite_102(credentials)
                               ELSE "credenciales",
                   !.after = IF onWrite_101(credentials)
                             THEN "ret" ELSE "onWrite_108"]
  /\ hpc' = "notify_90"
  /\ UNCHANGED <<st, hist>>

\* notify(), lines 87-90
HNotify90 ==
  /\ BleAt("notify_90")
  /\ IF notify_87(st)
     THEN /\ hpc' = hloc.after
          /\ UNCHANGED <<st, hloc>>
     ELSE /\ st' = notify_90(st, hloc.message)
          /\ UNCHANGED hloc
          /\ hpc' = "notify_91"
  /\ UNCHANGED hist

\* notify(), line 91
HNotify91 ==
  /\ BleAt("notify_91")
  /\ hpc' = IF notify_91(st) THEN "notify_92" ELSE hloc.after
  /\ UNCHANGED <<st, hloc, hist>>

\* notify(), line 92: the stack sends the value the characteristic holds
HNotify92 ==
  /\ BleAt("notify_92")
  /\ hloc' = [hloc EXCEPT !.pushes = Append(@, notify_92(st))]
  /\ hpc' = hloc.after
  /\ UNCHANGED <<st, hist>>

\* line 108
OnWrite108 ==
  /\ BleAt("onWrite_108")
  /\ \E callback \in g_callback_read(st) :
       /\ hloc' = [hloc EXCEPT !.callback = callback]
       /\ \E found \in onWrite_108(callback) :
            hpc' = IF found THEN "onWrite_109" ELSE "ret"
  /\ UNCHANGED <<st, hist>>

\* line 109: g_callback is read again for the call, or the value tested at
\* line 108 is used.  The call of a callback that begin() has meanwhile
\* replaced by the empty one (line 183), or of a half-written one, calls
\* nothing and aborts the program: the handler does not return.
OnWrite109 ==
  /\ BleAt("onWrite_109")
  /\ \E callback \in {hloc.callback} \cup g_callback_read(st) :
       IF onWrite_109(callback)
       THEN /\ hloc' = [hloc EXCEPT !.cbCalls =
                          Append(@, <<callback, hloc.credentials.ssid,
                                      hloc.credentials.password>>)]
            /\ hpc' = "ret"
       ELSE /\ hpc' = "abort"
            /\ UNCHANGED hloc
  /\ UNCHANGED <<st, hist>>

\* the handler returns to the stack
HReturn ==
  /\ BleAt("ret")
  /\ hpc' = "idle"
  /\ hloc' = NoLocals
  /\ UNCHANGED <<st, hist>>

Next ==
  \/ Begin
  \/ Begin183
  \/ Begin184
  \/ MNotify90
  \/ MNotify91
  \/ MNotify92
  \/ StartBle
  \/ StartBle196
  \/ StartBle197
  \/ StopBle
  \/ StopBle210a
  \/ StopBle210b
  \/ StopBle211
  \/ StopBle214
  \/ StopBle215
  \/ NotifyStatus
  \/ Loop224
  \/ Loop225
  \/ Loop226
  \/ MReturn
  \/ Connect
  \/ Connect116
  \/ Connect117
  \/ Disconnect
  \/ Disconnect121
  \/ Disconnect122
  \/ Disconnect123Early
  \/ Disconnect123
  \/ Disconnect124
  \/ Write
  \/ OnWrite98
  \/ HNotify90
  \/ HNotify91
  \/ HNotify92
  \/ OnWrite108
  \/ OnWrite109
  \/ HReturn

Spec == Init /\ [][Next]_vars

(***************************************************************************)
(* SpecSession: the calls and events that open and close a session, with   *)
(* begin() given either of two device ids; no write event, no              *)
(* notifyStatus(), no loop().                                              *)
(***************************************************************************)
NextSession ==
  \/ BeginSession
  \/ Begin183
  \/ Begin184
  \/ MNotify90
  \/ MNotify91
  \/ MNotify92
  \/ StartBle
  \/ StartBle196
  \/ StartBle197
  \/ StopBle
  \/ StopBle210a
  \/ StopBle210b
  \/ StopBle211
  \/ StopBle214
  \/ StopBle215
  \/ MReturn
  \/ Connect
  \/ Connect116
  \/ Connect117
  \/ Disconnect
  \/ Disconnect121
  \/ Disconnect122
  \/ Disconnect123Early
  \/ Disconnect123
  \/ Disconnect124

SpecSession == Init /\ [][NextSession]_vars

(***************************************************************************)
(* SpecParse: lines 98-99 of onWrite(), the parser applied to the value    *)
(* the handler reads, for every payload of up to MaxLen bytes written by   *)
(* the central of an open session.                                         *)
(***************************************************************************)
\* the state after begin("dev-A", cb1), startBle() and the connection of a
\* central with handle 0
SessionOpen ==
  LET begun == notify(begin_184(begin_183b(begin_183a(InitState, "cb1")),
                                "dev-A", TRUE, TRUE), "inactivo")
      started == startBle_197(startBle_196(
                   notify(startBle_194(startBle_193(begun)), "activo")))
  IN onConnect_117(onConnect_116(linkUp(started, 0)), 0)

InitParse ==
  /\ written \in Payloads
  /\ st = linkWrite(SessionOpen, written)
  /\ hist = [InitHist EXCEPT !.begun = TRUE, !.started = TRUE]
  /\ mpc = "idle"
  /\ hpc = "onWrite_98"
  /\ mloc = NoLocals
  /\ hloc = [Call("write") EXCEPT !.raw = written]
  /\ parsed = NotParsed

Parse ==
  /\ hpc = "onWrite_98"
  /\ parsed' = onWrite_99(onWrite_98(st))
  /\ hpc' = "onWrite_101"
  /\ UNCHANGED <<st, hist, mpc, mloc, hloc, written>>

NextParse == Parse

SpecParse == InitParse /\ [][NextParse]_vars

(***************************************************************************)
(* Claims.                                                                 *)
(***************************************************************************)
\* both tasks are between calls and events
Quiescent == mpc \in {"idle", "ret"} /\ hpc \in {"idle", "ret"}

\* the step is one of the main task, of the BLE task
MainStep == mpc' # mpc

BleStep == <<hpc, hloc>>' # <<hpc, hloc>>

\* C1, as stated: the restart that a disconnect event schedules while
\* isActive() is true stands until the next loop() call, whatever is called
\* in between: once the pending-restart flag is set, no step but the one
\* loop() restarts advertising with clears it.
C1_NextLoopRestarts ==
  [][(st.g_restartAdvertising /\ ~st'.g_restartAdvertising)
       => (mpc = "loop_225" /\ MainStep)]_vars

\* C1, amended: a loop() call clears the pending-restart flag and starts
\* advertising exactly once if a disconnect handler has set the flag, with
\* no startBle() or stopBle() call in progress while the handler ran, and
\* neither startBle() nor stopBle() nor a restarting loop() has been called
\* since; it starts advertising zero times and changes nothing if no
\* disconnect handler has set the flag since the last of these calls
\* cleared it.
C1_LoopRestartsOnce ==
  [][/\ (mpc = "idle" /\ MainStep /\ mloc'.op = "loop")
          => /\ hist.disc = "yes" => mpc' = "loop_225"
             /\ hist.disc = "no" => (mpc' = "ret" /\ mloc'.starts = 0)
             /\ st' = st
     /\ (mpc = "loop_225" /\ MainStep)
          => (~st'.g_restartAdvertising /\ mpc' = "loop_226")
     /\ (mpc = "loop_226" /\ MainStep)
          => (st'.advRunning /\ mloc'.starts = 1 /\ mpc' = "ret")]_vars

\* a loop() call has restarted advertising after a disconnect
C1_Witness ==
  /\ mpc = "ret"
  /\ mloc.op = "loop"
  /\ mloc.starts = 1
  /\ st.links = {}
  /\ st.advRunning
  /\ ~st.g_restartAdvertising

\* C2: when startBle() returns true isActive() is true, and when stopBle()
\* returns on an initialized module isActive() is false.
C2_ActiveAfterStartAndStop ==
  mpc = "ret" =>
    /\ (mloc.op = "startBle" /\ mloc.ret) => isActive(st)
    /\ (mloc.op = "stopBle" /\ st.g_initialized) => ~isActive(st)

\* stopBle() has returned after asking for the disconnection of a central
C2_Witness ==
  /\ mpc = "ret"
  /\ mloc.op = "stopBle"
  /\ st.g_centralConnected
  /\ mloc.discReqs # <<>>
  /\ ~isActive(st)

\* C3: between the calls of the application, wherever the handlers are,
\* sessionActive false implies that advertising is not running.
C3_InactiveNotAdvertising ==
  mpc \in {"idle", "ret"} => (~st.g_sessionActive => ~st.advRunning)

\* stopBle() has stopped the advertising of a session
C3_Witness ==
  /\ mpc = "ret"
  /\ mloc.op = "stopBle"
  /\ mloc.advBefore
  /\ mloc.stops = 1
  /\ ~st.g_sessionActive
  /\ ~st.advRunning

\* C4: centralConnected true implies that the stored connection handle is set,
\* in every state of the two tasks, so at every point where an application
\* call can read the two fields.
C4_ConnectedHasHandle ==
  st.g_centralConnected => st.g_connId # kInvalidConnId

\* C5: whenever both tasks are between calls and events, the pending-restart
\* flag is true only if a disconnect handler has set it and no startBle(),
\* stopBle() or restarting loop() has cleared it since, and never while the
\* session is stopped.
C5_FlagImpliesDisconnect ==
  Quiescent =>
    (st.g_restartAdvertising => (hist.disc # "no" /\ st.g_sessionActive))

\* C6, the state the claim excludes: startBle() has returned true, stopBle()
\* has not been called since, both tasks are between calls and events, no
\* central is connected, and advertising neither runs nor is due to be
\* restarted by loop().  From there advertising never runs again, however
\* often loop() is called.
C6_NoLostDisconnect ==
  (Quiescent /\ hist.started /\ st.links = {})
    => (st.advRunning \/ loop_224(st))

\* C7: initialized is true from the first begin() on and is never reset; the
\* service, the characteristic and the two handler objects exist exactly
\* once; once line 184 of a begin() call has run, and after the call, the
\* advertised name is the device id of that call; and no step replaces a
\* registered callback by the empty one.
C7_BeginIdempotent ==
  [][/\ st'.g_initialized <=> hist'.begun
     /\ st.g_initialized => st'.g_initialized
     /\ st'.services = (IF hist'.begun THEN 1 ELSE 0)
     /\ st'.characteristics = st'.services
     /\ st'.serverCallbacks = st'.services
     /\ st'.characteristicCallbacks = st'.services
     /\ (mloc'.op = "begin" /\ mpc' \notin {"begin_183b", "begin_184"})
          => st'.advData.name = mloc'.deviceId
     /\ st.g_callback # NoCallback => st'.g_callback # NoCallback]_vars

\* C8: the steps of a begin() call on an initialized module leave the stored
\* callback, sessionActive, centralConnected, the connection handle, the
\* pending-restart flag and the characteristic's value unchanged.
C8_BeginFrame ==
  [][(MainStep /\ st.g_initialized
        /\ (mloc.op = "begin" \/ mloc'.op = "begin"))
       => /\ st'.g_callback = st.g_callback
          /\ st'.g_sessionActive = st.g_sessionActive
          /\ st'.g_centralConnected = st.g_centralConnected
          /\ st'.g_connId = st.g_connId
          /\ st'.g_restartAdvertising = st.g_restartAdvertising
          /\ st'.value = st.value]_vars

\* C9: a startBle() call made when the module is not initialized or has no
\* advertising handle returns false and changes nothing.
C9_StartBleFailure ==
  [][(mpc = "idle" /\ MainStep /\ mloc'.op = "startBle"
        /\ (~st.g_initialized \/ ~st.g_advertising))
       => (mpc' = "ret" /\ ~mloc'.ret /\ st' = st)]_vars

\* startBle() has failed on an initialized module without advertising handle
C9_Witness ==
  /\ mpc = "ret"
  /\ mloc.op = "startBle"
  /\ ~mloc.ret
  /\ st.g_initialized
  /\ ~st.g_advertising

\* the session state C10 speaks of
SessionState(s) ==
  [sessionActive |-> s.g_sessionActive,
   pendingRestart |-> s.g_restartAdvertising,
   advertising |-> s.advRunning,
   status |-> s.value]

SessionStopped ==
  [sessionActive |-> FALSE, pendingRestart |-> FALSE,
   advertising |-> FALSE, status |-> Ascii("inactivo")]

\* C10: a stopBle() call on a module that is not initialized returns at
\* once, changes nothing and sends no status; and every stopBle() call on an
\* initialized module returns with sessionActive false, pending-restart
\* false, advertising stopped and the status "inactivo", so that a second
\* call right after the first returns in the session state the first left.
C10_StopBleIdempotent ==
  [][/\ (mpc = "idle" /\ MainStep /\ mloc'.op = "stopBle"
          /\ ~st.g_initialized)
          => (mpc' = "ret" /\ st' = st /\ mloc'.pushes = <<>>)
     /\ (MainStep /\ mpc' = "ret" /\ mloc'.op = "stopBle"
          /\ st.g_initialized)
          => SessionState(st') = SessionStopped]_vars

\* C11: a stopBle() call that finds a central connected requests the
\* disconnection of exactly the handle it tested, and when it sets the
\* status "inactivo" the connection is terminated and the handle
\* invalidated: centralConnected is false, the handle unset, the link closed.
C11_StopBleTerminates ==
  [][/\ (mpc = "stopBle_211" /\ MainStep)
          => mloc'.discReqs = <<mloc.connId>>
     /\ (mpc = "notify_90" /\ MainStep /\ mloc.op = "stopBle"
           /\ mloc.discReqs # <<>>)
          => /\ st'.value = Ascii("inactivo")
             /\ ~st.g_centralConnected
             /\ st.g_connId = kInvalidConnId
             /\ mloc.discReqs[1] \notin st.links]_vars

(***************************************************************************)
(* The reference the parser claims are stated against: the outcome is      *)
(* read off the payload as written, without the parser's steps.            *)
(***************************************************************************)
Has(p, c) == \E i \in 1..Len(p) : p[i] = c

\* the separator of a payload that has one
RefSeparator(p) == IF Has(p, LF) THEN LF ELSE PIPE

\* the part of p before, and the part after, the first c
RECURSIVE Before(_, _)
Before(p, c) ==
  IF p = <<>> \/ Head(p) = c THEN <<>> ELSE <<Head(p)>> \o Before(Tail(p), c)

After(p, c) == SubSeq(p, Len(Before(p, c)) + 2, Len(p))

Blank(p) == \A i \in 1..Len(p) : p[i] \in {SP, TAB, CR, LF}

\* the error code of a payload, "" for a payload that parses
RefError(p) ==
  IF p = <<>> THEN "vacio"
  ELSE IF ~Has(p, LF) /\ ~Has(p, PIPE) THEN "formato"
  ELSE IF Blank(Before(p, RefSeparator(p))) THEN "ssid"
  ELSE ""

\* the write handler has parsed the value it read
WriteParsed == hloc.op = "write" /\ hpc # "onWrite_98"

\* C12: the handler of a write event whose payload fails to parse sets the
\* status to "error:" followed by the code of that payload's failure and
\* invokes no callback, and its steps leave sessionActive,
\* centralConnected, the connection handle, the pending-restart flag and
\* the advertising state unchanged.
C12_FailedWrite ==
  [][/\ (WriteParsed /\ RefError(hloc.raw) # "")
          => /\ hloc.message = "error:" \o RefError(hloc.raw)
             /\ hloc.cbCalls = <<>>
     /\ (BleStep /\ hloc.op = "write")
          => [st' EXCEPT !.value = <<>>] = [st EXCEPT !.value = <<>>]]_vars

\* C13: the handler of a write event whose payload parses sets the status to
\* "credenciales" and then, a callback being registered, invokes it exactly
\* once with the ssid and the password of that payload, whether the handler
\* returns or the call aborts the program; the handler of a write that fails
\* to parse invokes none.
C13_ValidWriteInvokes ==
  (hloc.op = "write" /\ hpc \in {"ret", "abort"}) =>
    IF RefError(hloc.raw) = ""
    THEN /\ hloc.message = "credenciales"
         /\ hloc.callback # NoCallback =>
              /\ Len(hloc.cbCalls) = 1
              /\ hloc.cbCalls[1][2] = parseCredentials(hloc.raw).ssid
              /\ hloc.cbCalls[1][3] = parseCredentials(hloc.raw).password
    ELSE hloc.cbCalls = <<>>

\* C14: every notify() call, of either task, returns at once while the
\* characteristic does not exist; otherwise it stores its message as the
\* characteristic's value, then pushes a notification if and only if a
\* central is connected at that moment; and nothing but notify() changes the
\* value, so that it is the last message given to notify().
C14_NotifyStoresAndPushes ==
  [][/\ (mpc = "notify_90" /\ MainStep)
          => IF ~st.g_characteristic
             THEN st' = st /\ mloc' = mloc /\ mpc' = mloc.after
             ELSE /\ st' = [st EXCEPT !.value = Ascii(mloc.message)]
                  /\ mpc' = "notify_91"
     /\ (hpc = "notify_90" /\ BleStep)
          => IF ~st.g_characteristic
             THEN st' = st /\ hloc' = hloc /\ hpc' = hloc.after
             ELSE /\ st' = [st EXCEPT !.value = Ascii(hloc.message)]
                  /\ hpc' = "notify_91"
     /\ (mpc = "notify_91" /\ MainStep)
          => /\ mpc' = "notify_92" <=> st.links # {}
             /\ mpc' # "notify_92" => (mpc' = mloc.after /\ mloc' = mloc)
     /\ (hpc = "notify_91" /\ BleStep)
          => /\ hpc' = "notify_92" <=> st.links # {}
             /\ hpc' # "notify_92" => (hpc' = hloc.after /\ hloc' = hloc)
     /\ (mpc = "notify_92" /\ MainStep)
          => (mloc'.pushes = Append(mloc.pushes, st.value) /\ st' = st)
     /\ (hpc = "notify_92" /\ BleStep)
          => (hloc'.pushes = Append(hloc.pushes, st.value) /\ st' = st)
     /\ (st'.value # st.value /\ st.g_initialized)
          => \/ mpc = "notify_90" /\ MainStep
             \/ hpc = "notify_90" /\ BleStep]_vars

\* p without its leading and trailing blank bytes
RefTrim(p) ==
  IF Blank(p) THEN <<>>
  ELSE LET solid == {i \in 1..Len(p) : p[i] \notin {SP, TAB, CR, LF}}
           lo == CHOOSE i \in solid : \A j \in solid : i <= j
           hi == CHOOSE i \in solid : \A j \in solid : j <= i
       IN SubSeq(p, lo, hi)

\* p without its carriage returns
WithoutCR(p) == SelectSeq(p, LAMBDA x : x # CR)

\* C15, as stated: for every way of reading the payload as A, newline, B
\* with trim(A) not empty, the parser succeeds with ssid = trim(A) and
\* password = trim(B).
C15_NewlinePayload ==
  parsed # NotParsed =>
    \A i \in 1..Len(written) :
      LET A == SubSeq(written, 1, i - 1)
          B == SubSeq(written, i + 1, Len(written))
      IN (written[i] = LF /\ ~Blank(A))
           => /\ parsed.valid
              /\ parsed.ssid = RefTrim(A)
              /\ parsed.password = RefTrim(B)

\* C15, amended: for every payload A, newline, B where A holds no newline
\* and trim(A) is not empty, the parser succeeds, with ssid the trimmed A
\* and password the trimmed B, both taken without their carriage returns
\* and up to their first zero byte.
C15_FirstNewlinePayload ==
  (parsed # NotParsed /\ Has(written, LF)) =>
    LET A == Before(written, LF)
        B == After(written, LF)
    IN ~Blank(A)
         => /\ parsed.valid
            /\ parsed.ssid = Before(RefTrim(WithoutCR(A)), NUL)
            /\ parsed.password = Before(RefTrim(WithoutCR(B)), NUL)

\* a payload with blanks around the SSID, a CR LF line ending and an empty
\* password has been parsed
C15_Witness ==
  /\ written = <<SP, 97, CR, LF>>
  /\ parsed = ParsedCredentials(TRUE, <<97>>, <<>>, "")

\* C16: the parser fails with "vacio" on the empty payload, with "formato"
\* on every other payload that holds no newline and no pipe, with "ssid" on
\* every payload whose part before the separator is blank, and on no other
\* payload.
C16_ErrorClassification ==
  parsed # NotParsed =>
    /\ parsed.error = RefError(written)
    /\ parsed.valid <=> RefError(written) = ""
    /\ ~parsed.valid => (parsed.ssid = <<>> /\ parsed.password = <<>>)

\* a payload whose SSID is a carriage return and a tab has been refused
C16_Witness ==
  /\ written = <<CR, TAB, PIPE, 97>>
  /\ parsed = ParsedCredentials(FALSE, <<>>, <<>>, "ssid")

\* C17: a payload that holds a newline is split at its first newline, a
\* payload that holds none at its first pipe: the fields of a payload that
\* parses are the trimmed parts before and after that byte, pipes included.
C17_NewlineBeforePipe ==
  (parsed # NotParsed /\ parsed.valid) =>
    LET separator == RefSeparator(written)
        fields == <<Before(written, separator), After(written, separator)>>
    IN /\ Has(written, separator)
       /\ parsed.ssid = Before(RefTrim(WithoutCR(fields[1])), NUL)
       /\ parsed.password = Before(RefTrim(WithoutCR(fields[2])), NUL)

\* a payload with a pipe before its newline and one after it has been parsed
C17_Witness ==
  /\ written = <<PIPE, 97, LF, PIPE>>
  /\ parsed = ParsedCredentials(TRUE, <<PIPE, 97>>, <<PIPE>>, "")

\* C18: the ssid of the credentials the callback is given (line 109: the
\* fields of a result that is valid) is not empty, and neither the ssid nor
\* the password begins or ends with a space, a tab, a CR or a LF.
C18_CallbackFieldsTrimmed ==
  (parsed # NotParsed /\ parsed.valid) =>
    /\ parsed.ssid # <<>>
    /\ parsed.ssid = RefTrim(parsed.ssid)
    /\ parsed.password = RefTrim(parsed.password)

\* C19: on an initialized module, after any sequence of begin(), startBle()
\* and stopBle() calls and connect and disconnect events, the
\* characteristic's value is "activo" if sessionActive is true and
\* "inactivo" if it is false.
C19_StatusTracksSession ==
  (Quiescent /\ st.g_initialized) =>
    st.value = Ascii(IF st.g_sessionActive THEN "activo" ELSE "inactivo")

\* C20: the handler of a write event that arrives after stopBle() has
\* returned, and that no startBle() call overlaps, invokes no callback.
C20_NoCallbackAfterStop ==
  (hloc.op = "write" /\ hloc.stopped /\ Stopped) => hloc.cbCalls = <<>>
====
